---- MODULE Spec2Model ----
(***************************************************************************)
(* mysql-mcp (cmd/main.go): the JSON-RPC session loop of the MySQL MCP     *)
(* server, its method routing, tool dispatch, query safety gate, the        *)
(* statements it sends to the database and the text table it renders from  *)
(* a result set.                                                           *)
(*                                                                         *)
(* Text is a sequence of one-byte strings, so that TrimSpace, ToUpper,     *)
(* HasPrefix, len, slicing and padding are computed and not assumed.  JSON *)
(* values on the wire and Go values in memory are different records:       *)
(* decoding and encoding are operators between them.                       *)
(*                                                                         *)
(* Spec is the session as a whole; RenderSpec is one request that goes     *)
(* through executeQuery, answered with any result set of a bounded family. *)
(***************************************************************************)
EXTENDS Integers, Sequences, FiniteSets, TLC

VARIABLES
    input,    \* stdin: the units of the stream not yet read (kinds of unit)
    tail,     \* stdin: how the stream ends, "clean" or "truncated"
    decErr,   \* json.Decoder's sticky error (dec.err)
    pc,       \* run() / main(): "Reading", "Logging" (a decode error is being
              \* logged), "Dispatching", "Done", "Closed"
    cur,      \* the request last decoded (wire form and MCPRequest)
    resp,     \* the response last written to stdout (encoded form)
    sent,     \* statements handed to s.db while handling cur
    reqIds,   \* IDs of the requests decoded so far, in order
    out,      \* stdout: ids of the responses written so far, in order
    dbOpen,   \* the *sql.DB handle is open (main's deferred Close not yet run)
    answer    \* what the database answered to the statement sent for cur

vars == <<input, tail, decErr, pc, cur, resp, sent, reqIds, out, dbOpen, answer>>

\* Bound of the model: the units in the input stream
MaxStream == 2

\* Bound of the model: the rows a result set delivers
MaxRows == 2

-----------------------------------------------------------------------------
(* Text *)

Lower == <<"a","b","c","d","e","f","g","h","i","j","k","l","m",
           "n","o","p","q","r","s","t","u","v","w","x","y","z">>
Upper == <<"A","B","C","D","E","F","G","H","I","J","K","L","M",
           "N","O","P","Q","R","S","T","U","V","W","X","Y","Z">>

\* unicode.IsSpace restricted to the ASCII white space of the sample texts
IsSpace(c) == c \in {" ", "\t", "\n", "\r"}

UpperChar(c) ==
    IF \E i \in DOMAIN Lower : Lower[i] = c
    THEN Upper[CHOOSE i \in DOMAIN Lower : Lower[i] = c]
    ELSE c

\* strings.ToUpper
ToUpper(s) == [i \in DOMAIN s |-> UpperChar(s[i])]

\* strings.TrimSpace: drop leading and trailing white space
TrimSpace(s) ==
    LET keep == {i \in DOMAIN s : ~IsSpace(s[i])}
    IN  IF keep = {} THEN <<>>
        ELSE LET lo == CHOOSE i \in keep : \A j \in keep : i <= j
                 hi == CHOOSE i \in keep : \A j \in keep : j <= i
             IN  SubSeq(s, lo, hi)

\* strings.HasPrefix
HasPrefix(s, p) == Len(s) >= Len(p) /\ SubSeq(s, 1, Len(p)) = p

KwSELECT   == <<"S","E","L","E","C","T">>
KwSHOW     == <<"S","H","O","W">>
KwDESCRIBE == <<"D","E","S","C","R","I","B","E">>
KwDESC     == <<"D","E","S","C">>

Digits == <<"0","1","2","3","4","5","6","7","8","9">>

RECURSIVE ItoaNat(_)
ItoaNat(n) == IF n < 10 THEN <<Digits[n + 1]>>
              ELSE ItoaNat(n \div 10) \o <<Digits[(n % 10) + 1]>>

\* strconv.Itoa
Itoa(n) == IF n < 0 THEN <<"-">> \o ItoaNat(0 - n) ELSE ItoaNat(n)

\* A text is its bytes (len and slicing of a Go string count bytes).  A byte
\* of a character outside ASCII is written as two hex digits: "e4", "b8", "ad"
\* are the three bytes of U+4E2D in UTF-8.
Lead3 == {"e4"}
Cont  == {"b8", "ad"}

\* utf8.RuneCountInString: a well-formed sequence is one rune, every other
\* byte is one rune
RECURSIVE RuneCountInString(_)
RuneCountInString(s) ==
    IF s = <<>> THEN 0
    ELSE IF s[1] \in Lead3 /\ Len(s) >= 3 /\ s[2] \in Cont /\ s[3] \in Cont
    THEN 1 + RuneCountInString(SubSeq(s, 4, Len(s)))
    ELSE 1 + RuneCountInString(Tail(s))

\* strings.Repeat
Repeat(c, count) == [i \in 1..count |-> c]

\* fmt.Sprintf("%-*s ", width, s): s, then blanks up to width runes (no cut
\* when s is longer), then the blank of the format
SprintfLeft(width, s) ==
    LET n == RuneCountInString(s)
    IN  s \o Repeat(" ", IF n < width THEN width - n ELSE 0) \o <<" ">>

-----------------------------------------------------------------------------
(* Sample texts of the input space *)

QSelect   == <<"s","e","l","e","c","t"," ","*"," ","f","r","o","m"," ","u","s","e","r","s">>
QShow     == <<" "," ","S","H","O","W"," ","T","A","B","L","E","S">>
QDescribe == <<"D","E","S","C","R","I","B","E"," ","o","r","d","e","r","s">>
QDelete   == <<"D","E","L","E","T","E"," ","F","R","O","M"," ","u","s","e","r","s">>
QDrop     == <<"D","R","O","P"," ","T","A","B","L","E"," ","u","s","e","r","s">>
QEmpty    == <<>>
QDesc     == <<"d","e","s","c"," ","u","s","e","r","s">>
QComment  == <<"/","*","*","/","S","E","L","E","C","T"," ","1">>
QMixed    == <<"\n","\t","S","h","o","w"," ","t","a","b","l","e","s"," ">>
QBlank    == <<" "," ">>
QSelec    == <<"S","E","L","E","C">>

Queries == {QSelect, QShow, QDescribe, QDelete, QDrop, QEmpty, QDesc, QComment,
            QMixed, QBlank, QSelec}

TUsers == <<"u","s","e","r","s">>
WAge   == <<"a","g","e"," ",">"," ","2","6">>
IdA    == <<"r","e","q","-","1">>
SFive  == <<"5">>

-----------------------------------------------------------------------------
(* JSON values on the wire, Go values in memory *)

\* A JSON value as written in a request or a response.  t = "absent" stands for
\* a key that is not there.  A number is hi * 2^53 + lo + frac/10.
JV(t, hi, lo, frac, s) == [t |-> t, hi |-> hi, lo |-> lo, frac |-> frac, s |-> s]
JAbsent        == JV("absent", 0, 0, 0, <<>>)
JNull          == JV("null", 0, 0, 0, <<>>)
JArray         == JV("array", 0, 0, 0, <<>>)
JStr(s)        == JV("string", 0, 0, 0, s)
JNum(hi, lo)   == JV("number", hi, lo, 0, <<>>)
JHalf(lo)      == JV("number", 0, lo, 5, <<>>)

\* A Go interface{} value.  k = "missing" stands for a map key that is not there.
GV(k, hi, lo, frac, s) == [k |-> k, hi |-> hi, lo |-> lo, frac |-> frac, s |-> s]
GoNil     == GV("nil", 0, 0, 0, <<>>)
GoMissing == GV("missing", 0, 0, 0, <<>>)

\* strconv.ParseFloat as encoding/json uses it for a number decoded into
\* interface{}: round to the nearest float64, ties to the even mantissa.  Below
\* 2^53 every sample is exact; from 2^53 on the float64 are the even integers.
Float64Of(hi, lo) ==
    IF hi = 0 \/ lo % 2 = 0 THEN lo
    ELSE IF ((lo - 1) \div 2) % 2 = 0 THEN lo - 1 ELSE lo + 1

\* encoding/json decoding a JSON value into interface{}
DecodeValue(j) ==
    CASE j.t = "absent" -> GoMissing
      [] j.t = "null"   -> GoNil
      [] j.t = "number" -> GV("float64", j.hi, Float64Of(j.hi, j.lo), j.frac, <<>>)
      [] j.t = "string" -> GV("string", 0, 0, 0, j.s)
      [] OTHER          -> GV("slice", 0, 0, 0, <<>>)

\* encoding/json encoding an interface{} value
EncodeValue(g) ==
    CASE g.k \in {"nil", "missing"} -> JNull
      [] g.k = "float64" -> JV("number", g.hi, g.lo, g.frac, <<>>)
      [] g.k = "string"  -> JStr(g.s)
      [] OTHER           -> JArray

\* MCPRequest.ID: a struct field of type interface{} left nil by an absent key
DecodeID(j) == IF j.t = "absent" THEN GoNil ELSE DecodeValue(j)

\* int(lf) for a float64 of magnitude below 2^31: truncation toward zero
IntOfFloat(g) == IF g.lo < 0 /\ g.frac > 0 THEN g.lo + 1 ELSE g.lo

-----------------------------------------------------------------------------
(* Requests on the wire *)

JName(t, s)  == [t |-> t, s |-> s]
NameAbsent   == JName("absent", "")
NameNumber   == JName("number", "")
NameStr(s)   == JName("string", s)

JArgs(t, tn, q, l, w) ==
    [t |-> t, table_name |-> tn, query |-> q, limit |-> l, where_clause |-> w]
ArgsAbsent == JArgs("absent", JAbsent, JAbsent, JAbsent, JAbsent)
ArgsNull   == JArgs("null", JAbsent, JAbsent, JAbsent, JAbsent)
ArgsString == JArgs("string", JAbsent, JAbsent, JAbsent, JAbsent)
ArgsObj(tn, q, l, w) == JArgs("object", tn, q, l, w)

JParams(t, n, a) == [t |-> t, name |-> n, arguments |-> a]
ParamsAbsent == JParams("absent", NameAbsent, ArgsAbsent)
ParamsNull   == JParams("null", NameAbsent, ArgsAbsent)
ParamsArray  == JParams("array", NameAbsent, ArgsAbsent)
ParamsObj(n, a) == JParams("object", n, a)

TableNameArgs ==
    {ArgsAbsent, ArgsNull}
    \cup {ArgsObj(tn, JAbsent, JAbsent, JAbsent) :
             tn \in {JAbsent, JNull, JStr(TUsers), JNum(0, 5)}}

QueryTableArgs ==
    {ArgsAbsent}
    \cup {ArgsObj(tn, JAbsent, JAbsent, JAbsent) : tn \in {JAbsent, JNum(0, 5)}}
    \cup {ArgsObj(JStr(TUsers), JAbsent, l, w) :
             l \in {JAbsent, JNull, JNum(0, 2), JHalf(2), JStr(SFive)},
             w \in {JAbsent, JStr(WAge), JStr(<<>>), JNum(0, 1)}}

ExecuteQueryArgs ==
    {ArgsAbsent, ArgsNull}
    \cup {ArgsObj(JAbsent, q, JAbsent, JAbsent) :
             q \in {JAbsent, JNum(0, 5)} \cup {JStr(x) : x \in Queries}}

ToolCallParams ==
    {ParamsAbsent, ParamsNull, ParamsArray}
    \cup {ParamsObj(NameNumber, ArgsAbsent),
          ParamsObj(NameAbsent, ArgsAbsent),
          ParamsObj(NameStr("drop_table"), ArgsAbsent),
          ParamsObj(NameStr("list_tables"), ArgsString)}
    \cup {ParamsObj(NameStr("list_tables"), a) :
             a \in {ArgsAbsent, ArgsNull, ArgsObj(JStr(TUsers), JAbsent, JAbsent, JAbsent)}}
    \cup {ParamsObj(NameStr(n), a) :
             n \in {"describe_table", "show_table_indexes"}, a \in TableNameArgs}
    \cup {ParamsObj(NameStr("query_table"), a) : a \in QueryTableArgs}
    \cup {ParamsObj(NameStr("execute_query"), a) : a \in ExecuteQueryArgs}

Ids == {JAbsent, JNull, JNum(0, 1), JNum(1, 1), JStr(IdA)}

Bodies ==
    {[method |-> m, params |-> ParamsAbsent] :
         m \in {"initialize", "tools/list", "resources/list", ""}}
    \cup {[method |-> "tools/list", params |-> ParamsNull]}
    \cup {[method |-> "tools/call", params |-> p] : p \in ToolCallParams}

\* The well-formed requests of the model: every id with every body
Requests == {[id |-> i, method |-> b.method, params |-> b.params] :
                 i \in Ids, b \in Bodies}

\* encoding/json decoding one request object into MCPRequest
DecodeRequest(w) == [ID |-> DecodeID(w.id), Method |-> w.method, Params |-> w.params]

-----------------------------------------------------------------------------
(* Responses *)

\* A result: the tool descriptors of tools/list, or the one text block of a
\* tool (text: its lines, each line the pieces it was built from)
NilResult == [kind |-> "nil", by |-> "", tools |-> <<>>, text |-> <<>>]
NilError  == [set |-> FALSE, Code |-> 0, Message |-> ""]

\* MCPResponse with Result set
ResultResponse(id, result) ==
    [Jsonrpc |-> "2.0", ID |-> id, Result |-> result, Error |-> NilError]

\* MCPResponse with Error set
ErrorOf(id, code, message) ==
    [Jsonrpc |-> "2.0", ID |-> id, Result |-> NilResult,
     Error |-> [set |-> TRUE, Code |-> code, Message |-> message]]

\* errorResponse that leaves a result beside the error
errorResponse_WithResult(id, message) ==
    [ErrorOf(id, -32603, message) EXCEPT
        !.Result = [kind |-> "text", by |-> "errorResponse", tools |-> <<>>,
                    text |-> <<>>]]

errorResponse(id, message) == ErrorOf(id, -32603, message)

\* The single text block a tool returns on success
TextResponse(id, by, text) ==
    ResultResponse(id, [kind |-> "text", by |-> by, tools |-> <<>>,
                        text |-> text])

\* The fixed texts of main.go (the Chinese ones in translation)
MsgNotAllowed   == "only SELECT, SHOW, DESCRIBE queries are allowed"
MsgQueryError   == "query error: "
MsgColumnsError == "column information error: "
MsgDatabase     == "Database error: "
\* The text of the error the driver returns
DbErrText       == "driver: bad connection"

\* The registry with two of its descriptors in each other's place
tools_Reordered ==
    << [name |-> "list_tables",        required |-> <<>>],
       [name |-> "query_table",        required |-> <<"table_name">>],
       [name |-> "describe_table",     required |-> <<"table_name">>],
       [name |-> "execute_query",      required |-> <<"query">>],
       [name |-> "show_table_indexes", required |-> <<"table_name">>] >>

\* The tool registry of tools/list: names and required lists (Required of
\* list_tables is the nil slice: no name is required, and with omitempty the
\* key is not written)
tools ==
    << [name |-> "list_tables",        required |-> <<>>],
       [name |-> "describe_table",     required |-> <<"table_name">>],
       [name |-> "query_table",        required |-> <<"table_name">>],
       [name |-> "execute_query",      required |-> <<"query">>],
       [name |-> "show_table_indexes", required |-> <<"table_name">>] >>

-----------------------------------------------------------------------------
(* The database collaborator *)

\* A column value as the driver hands it over: nil for NULL, else its text
VNull   == [null |-> TRUE, s |-> <<>>]
VStr(s) == [null |-> FALSE, s |-> s]

\* A row the result set delivers (rows.Next() is true).  scan = "err": the
\* row does not fit the typed destinations of listTables, describeTable and
\* showTableIndexes (a NULL for a string, another number of columns), so their
\* rows.Scan returns an error
Row(scan, vals) == [scan |-> scan, vals |-> vals]

\* What the database answers to one statement.  s.db.Query fails, or
\* rows.Columns fails, or the result set has the columns cols and delivers
\* rows; with iter = "err" rows.Next() then returns false because the driver
\* failed (rows.Err() is not nil) and not because the rows are at their end
Answer(query, columns, cols, rows, iter) ==
    [query |-> query, columns |-> columns, cols |-> cols, rows |-> rows,
     iter |-> iter]
QueryFails        == Answer("err", "ok", <<>>, <<>>, "ok")
ColumnsFails      == Answer("ok", "err", <<>>, <<>>, "ok")
Table(cols, rows) == Answer("ok", "ok", cols, rows, "ok")
Broken(cols, rows) == Answer("ok", "ok", cols, rows, "err")

ColId     == <<"i","d">>
ColName   == <<"n","a","m","e">>
ValOne    == VStr(<<"1">>)
ValAlice  == VStr(<<"A","l","i","c","e"," ","S","m","i","t","h">>)
RowAlice  == <<ValOne, ValAlice>>

\* The answers of the session model: the two failures of the calls, an empty
\* table, a table of one row, the same with a failing Scan, and the same
\* with the iteration failing after the row
DBOutcomes ==
    { QueryFails, ColumnsFails,
      Table(<<ColId, ColName>>, <<>>),
      Table(<<ColId, ColName>>, <<Row("ok", RowAlice)>>),
      Table(<<ColId, ColName>>, <<Row("err", RowAlice)>>),
      Broken(<<ColId, ColName>>, <<Row("ok", RowAlice)>>) }

\* One call of s.db.Query: the statement and the function that made the call
Stmt(text, via) == [stmt |-> text, via |-> via]

StmtShowTables == <<"S","H","O","W"," ","T","A","B","L","E","S">>
PfxDescribe    == <<"D","E","S","C","R","I","B","E"," ">>
PfxShowIndex   == <<"S","H","O","W"," ","I","N","D","E","X"," ","F","R","O","M"," ">>
\* "bq" is the one character U+0060 (backquote)
Backtick       == <<"bq">>
PfxSelectFrom  == <<"S","E","L","E","C","T"," ","*"," ","F","R","O","M"," ">> \o Backtick
PfxWhere       == <<" ","W","H","E","R","E"," ">>
PfxLimit       == <<" ","L","I","M","I","T"," ">>

-----------------------------------------------------------------------------
(* Tools *)

\* A line of a result text: the statement that appended it (kind) and the
\* pieces appended, in order; the line is their concatenation
Line(kind, cells) == [kind |-> kind, cells |-> cells]

NullText == <<"N","U","L","L">>

\* valueStr: "NULL" for nil, fmt.Sprintf("%v", value) otherwise (the text of
\* a value that is a text)
ValueStr(value) == IF value.null THEN NullText ELSE value.s

\* rows.Scan(&tableName) and the like: an error for a row that does not fit
ScanTyped(r) == r.scan = "ok"

\* rows.Scan(valuePtrs...) of executeQuery: one *interface{} for each column
\* takes every value, the call returns no error for a row that rows.Next()
\* delivered
ScanAny(r) == TRUE

\* for rows.Next() { if err := rows.Scan(...); err != nil { continue } ... }:
\* the rows that are kept (typed: the destinations are typed variables);
\* rows.Err() is not looked at after the loop
ReadRows(o, typed) ==
    SelectSeq(o.rows, LAMBDA r : IF typed THEN ScanTyped(r) ELSE ScanAny(r))

\* The lines list_tables, describe_table and show_table_indexes write for the
\* rows they kept (their fixed titles and column layout are left out)
Listing(o) ==
    LET kept == ReadRows(o, TRUE)
    IN  [j \in DOMAIN kept |->
            Line("row", [i \in DOMAIN kept[j].vals |-> ValueStr(kept[j].vals[i])])]

listTables(id, o) ==
    [sent |-> <<Stmt(StmtShowTables, "listTables")>>,
     resp |-> IF o.query = "err"
              THEN errorResponse(id, MsgDatabase \o DbErrText)
              ELSE TextResponse(id, "listTables", Listing(o))]

describeTable(id, tableName, o) ==
    [sent |-> <<Stmt(PfxDescribe \o tableName, "describeTable")>>,
     resp |-> IF o.query = "err"
              THEN errorResponse(id, MsgDatabase \o DbErrText)
              ELSE TextResponse(id, "describeTable", Listing(o))]

showTableIndexes(id, tableName, o) ==
    [sent |-> <<Stmt(PfxShowIndex \o tableName, "showTableIndexes")>>,
     resp |-> IF o.query = "err"
              THEN errorResponse(id, MsgDatabase \o DbErrText)
              ELSE TextResponse(id, "showTableIndexes", Listing(o))]

\* The safety check left out
Authorize_Always(query) == TRUE

\* The safety check without strings.TrimSpace
Authorize_NoTrim(query) ==
    LET upperQuery == ToUpper(query)
    IN  \/ HasPrefix(upperQuery, KwSELECT)
        \/ HasPrefix(upperQuery, KwSHOW)
        \/ HasPrefix(upperQuery, KwDESCRIBE)
        \/ HasPrefix(upperQuery, KwDESC)

\* The safety check of executeQuery
Authorize(query) ==
    LET upperQuery == ToUpper(TrimSpace(query))
    IN  \/ HasPrefix(upperQuery, KwSELECT)
        \/ HasPrefix(upperQuery, KwSHOW)
        \/ HasPrefix(upperQuery, KwDESCRIBE)
        \/ HasPrefix(upperQuery, KwDESC)

Max(S) == CHOOSE x \in S : \A y \in S : y <= x

\* row[col] of the map filled at `row[col] = ...`: the value of the last
\* column of that name
RowAt(columns, row, col) ==
    row.vals[Max({i \in DOMAIN columns : columns[i] = col})]

\* colWidths after its two loops: len(col), raised to the longest valueStr
colWidths(columns, results) ==
    [col \in {columns[i] : i \in DOMAIN columns} |->
        Max({Len(col)} \cup
            {Len(ValueStr(RowAt(columns, results[j], col))) : j \in DOMAIN results})]

\* width after `if width < 8 { width = 8 }; if width > 30 { width = 30 }`
Clamp(width) == IF width < 8 THEN 8 ELSE IF width > 30 THEN 30 ELSE width

\* valueStr of a data row: cut to valueStr[:27] + "..." when a value that is
\* not nil has len(valueStr) > 30
Shown(value) ==
    IF value.null THEN NullText
    ELSE IF Len(value.s) > 30
    THEN SubSeq(value.s, 1, 27) \o <<".", ".", ".">>
    ELSE value.s

\* totalWidth: width + 1 for every column
RECURSIVE totalWidth(_, _)
totalWidth(columns, widths) ==
    IF columns = <<>> THEN 0
    ELSE Clamp(widths[Head(columns)]) + 1 + totalWidth(Tail(columns), widths)

\* The table without the branch for an empty result
resultText_NoSentinel(columns, results) ==
    LET widths == colWidths(columns, results)
    IN  << Line("title", <<Itoa(Len(results))>>), Line("blank", <<>>),
           Line("header", [i \in DOMAIN columns |->
                             SprintfLeft(Clamp(widths[columns[i]]), columns[i])]),
           Line("separator", <<Repeat("-", totalWidth(columns, widths))>>) >>
        \o [j \in DOMAIN results |->
               Line("row", [i \in DOMAIN columns |->
                              SprintfLeft(Clamp(widths[columns[i]]),
                                          Shown(RowAt(columns, results[j], columns[i])))])]

\* resultText: the title with the count of rows and an empty line, then the
\* header, the dashes and a line per row, or the one line that says no data
\* was found (its text is not written out here)
resultText(columns, results) ==
    LET widths == colWidths(columns, results)
    IN  << Line("title", <<Itoa(Len(results))>>), Line("blank", <<>>) >>
        \o IF Len(results) > 0
           THEN << Line("header", [i \in DOMAIN columns |->
                        SprintfLeft(Clamp(widths[columns[i]]), columns[i])]),
                   Line("separator", <<Repeat("-", totalWidth(columns, widths))>>) >>
                \o [j \in DOMAIN results |->
                       Line("row", [i \in DOMAIN columns |->
                            SprintfLeft(Clamp(widths[columns[i]]),
                                        Shown(RowAt(columns, results[j], columns[i])))])]
           ELSE << Line("sentinel", <<>>) >>

\* executeQuery that hands the query to the database before the safety check
executeQuery_QueryFirst(id, query, o) ==
    [sent |-> <<Stmt(query, "executeQuery")>>,
     resp |-> IF ~Authorize(query)
              THEN errorResponse(id, MsgNotAllowed)
              ELSE IF o.query = "err"
              THEN errorResponse(id, MsgQueryError \o DbErrText)
              ELSE IF o.columns = "err"
              THEN errorResponse(id, MsgColumnsError \o DbErrText)
              ELSE TextResponse(id, "executeQuery",
                                resultText(o.cols, ReadRows(o, FALSE)))]

executeQuery(id, query, o) ==
    IF ~Authorize(query)
    THEN [sent |-> <<>>, resp |-> errorResponse(id, MsgNotAllowed)]
    ELSE [sent |-> <<Stmt(query, "executeQuery")>>,
          resp |-> IF o.query = "err"
                   THEN errorResponse(id, MsgQueryError \o DbErrText)
                   ELSE IF o.columns = "err"
                   THEN errorResponse(id, MsgColumnsError \o DbErrText)
                   ELSE TextResponse(id, "executeQuery",
                                     resultText(o.cols, ReadRows(o, FALSE)))]

\* limit of queryTable: 10 unless args["limit"] is there and is a float64
LimitOf(args) ==
    IF args["limit"].k # "missing" /\ args["limit"].k = "float64"
    THEN IntOfFloat(args["limit"])
    ELSE 10

\* queryTable that takes the zero string for a table_name that is not there
queryTable_NoCheck(id, args, o) ==
    LET tableName == IF args["table_name"].k = "string"
                     THEN args["table_name"].s ELSE <<>>
    IN  executeQuery(id, PfxSelectFrom \o tableName \o Backtick
                         \o PfxLimit \o Itoa(LimitOf(args)), o)

queryTable(id, args, o) ==
    IF args["table_name"].k # "string"
    THEN [sent |-> <<>>, resp |-> errorResponse(id, "table_name is required")]
    ELSE LET tableName == args["table_name"].s
             base  == PfxSelectFrom \o tableName \o Backtick
             where == IF args["where_clause"].k = "string"
                         /\ args["where_clause"].s # <<>>
                      THEN base \o PfxWhere \o args["where_clause"].s
                      ELSE base
             query == where \o PfxLimit \o Itoa(LimitOf(args))
         IN  executeQuery(id, query, o)

-----------------------------------------------------------------------------
(* Dispatch *)

ArgKeys == {"table_name", "query", "limit", "where_clause"}
NilMap  == [k \in ArgKeys |-> GoMissing]

\* json.Unmarshal that takes absent params for an empty object
UnmarshalParams_AbsentOk(p) ==
    IF p.t \in {"absent", "null"}
    THEN [err |-> FALSE, Name |-> "", Arguments |-> NilMap]
    ELSE IF p.t = "object"
    THEN [err |-> \/ p.name.t \notin {"absent", "null", "string"}
                  \/ p.arguments.t \notin {"absent", "null", "object"},
          Name |-> IF p.name.t = "string" THEN p.name.s ELSE "",
          Arguments |-> IF p.arguments.t = "object"
                        THEN [k \in ArgKeys |-> DecodeValue(p.arguments[k])]
                        ELSE NilMap]
    ELSE [err |-> TRUE, Name |-> "", Arguments |-> NilMap]

\* json.Unmarshal(req.Params, &params) of handleToolCall
UnmarshalParams(p) ==
    CASE p.t = "null" ->
           [err |-> FALSE, Name |-> "", Arguments |-> NilMap]
      [] p.t = "object" ->
           [err |-> \/ p.name.t \notin {"absent", "null", "string"}
                    \/ p.arguments.t \notin {"absent", "null", "object"},
            Name |-> IF p.name.t = "string" THEN p.name.s ELSE "",
            Arguments |-> IF p.arguments.t = "object"
                          THEN [k \in ArgKeys |-> DecodeValue(p.arguments[k])]
                          ELSE NilMap]
      [] OTHER ->
           [err |-> TRUE, Name |-> "", Arguments |-> NilMap]

NoStmt(r) == [sent |-> <<>>, resp |-> r]

handleToolCall(req, o) ==
    LET params == UnmarshalParams(req.Params)
        args   == params.Arguments
    IN  IF params.err
        THEN NoStmt(ErrorOf(req.ID, -32602, "Invalid params"))
        ELSE CASE params.Name = "list_tables" -> listTables(req.ID, o)
               [] params.Name = "describe_table" ->
                    IF args["table_name"].k # "string"
                    THEN NoStmt(errorResponse(req.ID, "table_name is required"))
                    ELSE describeTable(req.ID, args["table_name"].s, o)
               [] params.Name = "query_table" -> queryTable(req.ID, args, o)
               [] params.Name = "execute_query" ->
                    IF args["query"].k # "string"
                    THEN NoStmt(errorResponse(req.ID, "query is required"))
                    ELSE executeQuery(req.ID, args["query"].s, o)
               [] params.Name = "show_table_indexes" ->
                    IF args["table_name"].k # "string"
                    THEN NoStmt(errorResponse(req.ID, "table_name is required"))
                    ELSE showTableIndexes(req.ID, args["table_name"].s, o)
               [] OTHER -> NoStmt(errorResponse(req.ID, "Unknown tool"))

handleRequest(req, o) ==
    CASE req.Method = "initialize" ->
           NoStmt(ResultResponse(req.ID,
                    [kind |-> "initialize", by |-> "", tools |-> <<>>,
                     text |-> <<>>]))
      [] req.Method = "tools/list" ->
           NoStmt(ResultResponse(req.ID,
                    [kind |-> "tools", by |-> "", tools |-> tools,
                     text |-> <<>>]))
      [] req.Method = "tools/call" -> handleToolCall(req, o)
      [] OTHER -> NoStmt(ErrorOf(req.ID, -32601, "Method not found"))

\* encoder.Encode(response): id always written; result and error written when
\* set (omitempty), result.kind = "nil" and error.set = FALSE standing for an
\* omitted key
Encode(r) == [id |-> EncodeValue(r.ID), result |-> r.Result, error |-> r.Error]

-----------------------------------------------------------------------------
(* The session loop: run() and main() *)

\* A unit of stdin: a well-formed request object, a text that is not JSON, or
\* a JSON value with a field (or itself) of the wrong JSON type
UnitKinds == {"req", "syntax", "type"}
Streams   == UNION {[1..n -> UnitKinds] : n \in 0..MaxStream}

NoReq    == [none |-> TRUE]
NoResp   == [none |-> TRUE]
NoAnswer == [none |-> TRUE]

Init ==
    /\ input \in Streams
    /\ tail \in {"clean", "truncated"}
    /\ decErr = "none"
    /\ pc = "Reading"
    /\ cur = NoReq
    /\ resp = NoResp
    /\ sent = <<>>
    /\ reqIds = <<>>
    /\ out = <<>>
    /\ dbOpen = TRUE
    /\ answer = NoAnswer

\* A new iteration of the loop: `var req MCPRequest` is fresh
FreshIteration ==
    cur' = NoReq /\ resp' = NoResp /\ sent' = <<>> /\ answer' = NoAnswer

\* decoder.Decode(&req) reads a well-formed request: err == nil
ReadRequest ==
    /\ pc = "Reading" /\ decErr = "none"
    /\ input # <<>> /\ Head(input) = "req"
    /\ \E w \in Requests :
          /\ cur' = [wire |-> w, req |-> DecodeRequest(w)]
          /\ reqIds' = Append(reqIds, DecodeRequest(w).ID)
    /\ input' = Tail(input)
    /\ resp' = NoResp /\ sent' = <<>> /\ answer' = NoAnswer
    /\ pc' = "Dispatching"
    /\ UNCHANGED <<tail, decErr, out, dbOpen>>

\* decoder.Decode(&req) reads a whole JSON value that does not fit MCPRequest:
\* *json.UnmarshalTypeError, the value is consumed, the decoder stays usable
ReadTypeError ==
    /\ pc = "Reading" /\ decErr = "none"
    /\ input # <<>> /\ Head(input) = "type"
    /\ input' = Tail(input)
    /\ pc' = "Logging"
    /\ FreshIteration
    /\ UNCHANGED <<tail, decErr, reqIds, out, dbOpen>>

\* decoder.Decode(&req) meets text that is not JSON: *json.SyntaxError, which
\* the decoder keeps in dec.err
ReadSyntaxError ==
    /\ pc = "Reading" /\ decErr = "none"
    /\ input # <<>> /\ Head(input) = "syntax"
    /\ decErr' = "syntax"
    /\ pc' = "Logging"
    /\ FreshIteration
    /\ UNCHANGED <<input, tail, reqIds, out, dbOpen>>

\* decoder.Decode(&req) meets the end of the stream inside a JSON value:
\* io.ErrUnexpectedEOF ("unexpected EOF"), kept in dec.err
ReadUnexpectedEOF ==
    /\ pc = "Reading" /\ decErr = "none"
    /\ input = <<>> /\ tail = "truncated"
    /\ decErr' = "unexpected EOF"
    /\ pc' = "Logging"
    /\ FreshIteration
    /\ UNCHANGED <<input, tail, reqIds, out, dbOpen>>

\* decoder.Decode(&req) meets the end of the stream between values: io.EOF,
\* err.Error() == "EOF", break
ReadEOF ==
    /\ pc = "Reading" /\ decErr = "none"
    /\ input = <<>> /\ tail = "clean"
    /\ decErr' = "EOF"
    /\ pc' = "Done"
    /\ FreshIteration
    /\ UNCHANGED <<input, tail, reqIds, out, dbOpen>>

\* decoder.Decode(&req) with dec.err set returns dec.err again; its text is not
\* "EOF"
ReadStickyError ==
    /\ pc = "Reading" /\ decErr \in {"syntax", "unexpected EOF"}
    /\ pc' = "Logging"
    /\ FreshIteration
    /\ UNCHANGED <<input, tail, decErr, reqIds, out, dbOpen>>

\* The decode error is logged (log.Printf) and the loop continues
LogDecodeError ==
    /\ pc = "Logging"
    /\ pc' = "Reading"
    /\ UNCHANGED <<input, tail, decErr, cur, resp, sent, reqIds, out, dbOpen,
                   answer>>

\* s.handleRequest(req) for every request of the model and every answer of
\* the database, computed once
Handled == [w \in Requests, o \in DBOutcomes |-> handleRequest(DecodeRequest(w), o)]

\* Dispatch that writes nothing for an error response
Dispatch_ErrorsNotWritten ==
    /\ pc = "Dispatching" /\ dbOpen
    /\ \E o \in DBOutcomes :
          LET h == Handled[cur.wire, o]
          IN  /\ resp' = Encode(h.resp)
              /\ sent' = h.sent
              /\ answer' = IF h.sent = <<>> THEN NoAnswer ELSE o
              /\ out' = IF h.resp.Error.set THEN out
                        ELSE Append(out, Encode(h.resp).id)
    /\ pc' = "Reading"
    /\ UNCHANGED <<input, tail, decErr, cur, reqIds, dbOpen>>

\* response := s.handleRequest(req); encoder.Encode(response).  The write to
\* stdout succeeds: the values of a response are all encodable, and a failed
\* write would only be logged
Dispatch ==
    /\ pc = "Dispatching" /\ dbOpen
    /\ \E o \in DBOutcomes :
          LET h == Handled[cur.wire, o]
          IN  /\ resp' = Encode(h.resp)
              /\ sent' = h.sent
              /\ answer' = IF h.sent = <<>> THEN NoAnswer ELSE o
              /\ out' = Append(out, Encode(h.resp).id)
    /\ pc' = "Reading"
    /\ UNCHANGED <<input, tail, decErr, cur, reqIds, dbOpen>>

\* server.db.Close() that does not wait for run() to return
Close_Early ==
    /\ pc \in {"Reading", "Dispatching", "Done"} /\ dbOpen
    /\ dbOpen' = FALSE
    /\ pc' = IF pc = "Done" THEN "Closed" ELSE pc
    /\ UNCHANGED <<input, tail, decErr, cur, resp, sent, reqIds, out, answer>>

\* main(): run() has returned, the deferred server.db.Close() runs
Close ==
    /\ pc = "Done"
    /\ dbOpen' = FALSE
    /\ pc' = "Closed"
    /\ UNCHANGED <<input, tail, decErr, cur, resp, sent, reqIds, out, answer>>

Next ==
    \/ ReadRequest
    \/ ReadTypeError
    \/ ReadSyntaxError
    \/ ReadUnexpectedEOF
    \/ ReadEOF
    \/ ReadStickyError
    \/ LogDecodeError
    \/ Dispatch
    \/ Close

Spec == Init /\ [][Next]_vars

\* run() is a loop of one goroutine and main() runs to its end: a step that
\* can be taken is taken
FairSpec == Spec /\ WF_vars(Next)

\* The result sets of the rendering model
AsciiText(n) == [i \in 1..n |-> Lower[((i - 1) % 26) + 1]]
ZhChar  == <<"e4", "b8", "ad">>
ColLong == AsciiText(35)
Val30   == VStr(AsciiText(30))
Val31   == VStr(AsciiText(31))
ValWide == VStr(AsciiText(26) \o ZhChar \o AsciiText(4))

ColumnLists == {<<ColId, ColName>>, <<ColLong, ColId>>}

ValuesOf(col) ==
    CASE col = ColId   -> {ValOne, VNull}
      [] col = ColName -> {ValAlice, Val30, Val31, ValWide, VNull}
      [] col = ColLong -> {ValOne, Val31}

RowsOf(cols) ==
    {Row("ok", vals) :
        vals \in {v \in [DOMAIN cols -> UNION {ValuesOf(cols[i]) : i \in DOMAIN cols}] :
                     \A i \in DOMAIN cols : v[i] \in ValuesOf(cols[i])}}

Tables ==
    UNION {{Answer("ok", "ok", cols, rows, iter) :
               rows \in [1..n -> RowsOf(cols)], iter \in {"ok", "err"}} :
           cols \in ColumnLists, n \in 0..MaxRows}

\* The requests of the rendering model: the two tools that go through
\* executeQuery
RenderRequests ==
    {w \in Requests :
        /\ w.id = JNum(0, 1) /\ w.method = "tools/call"
        /\ w.params \in
             {ParamsObj(NameStr("execute_query"),
                        ArgsObj(JAbsent, JStr(QSelect), JAbsent, JAbsent)),
              ParamsObj(NameStr("query_table"),
                        ArgsObj(JStr(TUsers), JAbsent, JAbsent, JAbsent))}}

\* run() has read one of these requests and is about to handle it
RenderInit ==
    /\ input = <<>>
    /\ tail = "clean"
    /\ decErr = "none"
    /\ pc = "Dispatching"
    /\ \E w \in RenderRequests :
          /\ cur = [wire |-> w, req |-> DecodeRequest(w)]
          /\ reqIds = <<DecodeRequest(w).ID>>
    /\ resp = NoResp
    /\ sent = <<>>
    /\ out = <<>>
    /\ dbOpen = TRUE
    /\ answer = NoAnswer

\* response := s.handleRequest(req); encoder.Encode(response), the database
\* answering with any of the result sets
Render ==
    /\ pc = "Dispatching" /\ dbOpen
    /\ \E o \in Tables :
          LET h == handleRequest(cur.req, o)
          IN  /\ resp' = Encode(h.resp)
              /\ sent' = h.sent
              /\ answer' = IF h.sent = <<>> THEN NoAnswer ELSE o
              /\ out' = Append(out, Encode(h.resp).id)
    /\ pc' = "Reading"
    /\ UNCHANGED <<input, tail, decErr, cur, reqIds, dbOpen>>

RenderNext == Render

RenderSpec == RenderInit /\ [][RenderNext]_vars

TypeOK ==
    /\ pc \in {"Reading", "Logging", "Dispatching", "Done", "Closed"}
    /\ decErr \in {"none", "syntax", "unexpected EOF", "EOF"}
    /\ Len(input) <= MaxStream
    /\ dbOpen \in BOOLEAN

-----------------------------------------------------------------------------
(* What the claims speak of *)

\* The state right after a request was handled: cur is the request, resp the
\* response written for it, sent the statements the database got for it
Answered == cur # NoReq /\ resp # NoResp

IsToolCall == Answered /\ cur.wire.method = "tools/call"

\* Params that json.Unmarshal cannot store into {name string, arguments map}
Unparseable(p) ==
    \/ p.t \in {"absent", "array"}
    \/ /\ p.t = "object"
       /\ \/ p.name.t \in {"number"}
          \/ p.arguments.t \in {"string"}

\* A tools/call whose params parse and name the tool `name`
Calls(name) ==
    /\ IsToolCall
    /\ cur.wire.params.t = "object"
    /\ ~Unparseable(cur.wire.params)
    /\ cur.wire.params.name = NameStr(name)

\* The argument `key` as the client wrote it (JAbsent without an arguments object)
WireArg(key) ==
    IF cur.wire.params.arguments.t = "object"
    THEN cur.wire.params.arguments[key]
    ELSE JAbsent

\* Section 4.2 of the specification: trim, uppercase, one of four prefixes
GateAccepts(q) ==
    \E kw \in {KwSELECT, KwSHOW, KwDESCRIBE, KwDESC} :
        HasPrefix(ToUpper(TrimSpace(q)), kw)

IsErrorWith(code) ==
    /\ resp.error.set
    /\ resp.error.Code = code
    /\ resp.result.kind = "nil"

\* C1: the response written for a request carries the request's id (a null id
\* for a request without id)
C1_IdEchoed ==
    Answered =>
        resp.id = IF cur.wire.id = JAbsent THEN JNull ELSE cur.wire.id

\* C2: every response has exactly one of result and error set
C2_ResultXorError ==
    Answered => ((resp.result.kind # "nil") # resp.error.set)

C2_Witness ==
    /\ Answered
    /\ cur.wire.method = "tools/call"
    /\ resp.error.set /\ resp.error.Code = -32603
    /\ sent # <<>>

\* C3 as stated: every statement the database gets was sent by executeQuery,
\* the one place that evaluates the allow-list check
C3_NoBypass ==
    \A i \in DOMAIN sent : sent[i].via = "executeQuery"

\* C3 as amended: every statement a tools/call sends starts with an allowed
\* keyword; those of query_table and execute_query are sent by executeQuery
\* after its check, those of list_tables, describe_table and
\* show_table_indexes are sent directly, without the check being evaluated
C3_AllowedStatements ==
    Answered =>
        \A i \in DOMAIN sent :
            /\ GateAccepts(sent[i].stmt)
            /\ IsToolCall
            /\ sent[i].via = "executeQuery"
                   <=> (Calls("query_table") \/ Calls("execute_query"))
            /\ sent[i].via = "listTables" <=> Calls("list_tables")
            /\ sent[i].via = "describeTable" <=> Calls("describe_table")
            /\ sent[i].via = "showTableIndexes" <=> Calls("show_table_indexes")

C3_Witness ==
    /\ Calls("query_table")
    /\ WireArg("where_clause") = JStr(WAge)
    /\ Len(sent) = 1
    /\ sent[1].via = "executeQuery"
    /\ resp.result.kind = "text"

C5_MalformedSkipped ==
    <>(/\ \A i \in DOMAIN input : input[i] # "req"
       /\ Len(out) = Len(reqIds))

\* C6: whatever the finite stream, run() returns in the end
C6_RunReturns == <>(pc \in {"Done", "Closed"})

C8_ErrorCodes ==
    Answered =>
        LET m == cur.wire.method
            unknownMethod == m \notin {"initialize", "tools/list", "tools/call"}
            badParams == m = "tools/call" /\ Unparseable(cur.wire.params)
        IN  /\ unknownMethod => IsErrorWith(-32601)
            /\ badParams => IsErrorWith(-32602)
            /\ (resp.error.set /\ ~unknownMethod /\ ~badParams)
                   => /\ IsErrorWith(-32603)
                      /\ m = "tools/call"
            /\ m \in {"initialize", "tools/list"} => ~resp.error.set

C8_Witness ==
    /\ IsToolCall
    /\ cur.wire.params = ParamsAbsent
    /\ IsErrorWith(-32602)
    /\ resp.error.Message = "Invalid params"

\* An argument the client gave with a JSON type other than the declared one
Mistyped(key) ==
    LET a == WireArg(key)
    IN  CASE key = "limit" -> a.t \in {"string", "array"} \/ (a.t = "number" /\ a.frac # 0)
          [] OTHER         -> a.t \in {"number", "array"}

\* The arguments section 4.1 declares for a tool
Declared(name) ==
    CASE name = "query_table" -> {"table_name", "limit", "where_clause"}
      [] name = "execute_query" -> {"query"}
      [] name \in {"describe_table", "show_table_indexes"} -> {"table_name"}
      [] OTHER -> {}

\* C9: a tools/call with a declared argument of the wrong type gets an error
\* response and no statement is executed
C9_ArgumentsTypeChecked ==
    \A t \in {"describe_table", "show_table_indexes", "query_table", "execute_query"} :
        (Calls(t) /\ \E k \in Declared(t) : Mistyped(k))
            => (resp.error.set /\ sent = <<>>)

\* The required list the registry gives for a tool
RequiredOf(name) ==
    LET i == CHOOSE j \in DOMAIN tools : tools[j].name = name
    IN  tools[i].required

\* C10: a call without a required argument gets an error that names the
\* field, nothing is executed, and the loop can read and answer what follows
C10_MissingArgument ==
    \A t \in {"describe_table", "show_table_indexes", "query_table", "execute_query"} :
        (Calls(t) /\ WireArg(RequiredOf(t)[1]) = JAbsent) =>
            /\ IsErrorWith(-32603)
            /\ resp.error.Message = RequiredOf(t)[1] \o " is required"
            /\ sent = <<>>
            /\ pc = "Reading" /\ decErr = "none" /\ dbOpen
            /\ (input # <<>> /\ Head(input) = "req") => ENABLED ReadRequest

C10_Witness ==
    /\ Calls("query_table")
    /\ cur.wire.params.arguments.t = "absent"
    /\ resp.error.Message = "table_name is required"
    /\ input # <<>> /\ Head(input) = "req"

\* The database reported a failure while cur was handled: s.db.Query
\* returned an error, or rows.Columns did (executeQuery is the one caller), or
\* rows.Scan did for a row (the three tools with typed destinations), or the
\* iteration ended on an error
DatabaseFailed ==
    /\ Answered /\ answer # NoAnswer
    /\ \/ answer.query = "err"
       \/ answer.columns = "err" /\ sent[1].via = "executeQuery"
       \/ /\ sent[1].via # "executeQuery"
          /\ \E j \in DOMAIN answer.rows : answer.rows[j].scan = "err"
       \/ answer.iter = "err"

\* C11: when the database reports a failure while a tool runs (statement,
\* column list, scan of a row, iteration), the response is an error that
\* carries the driver's text and no result, and the loop goes on
C11_DatabaseFailureIsError ==
    DatabaseFailed =>
        /\ IsErrorWith(-32603)
        /\ resp.error.Message \in {MsgDatabase \o DbErrText,
                                   MsgQueryError \o DbErrText,
                                   MsgColumnsError \o DbErrText}
        /\ pc = "Reading" /\ dbOpen

\* executeQuery has rendered a result set into the text written for cur
Rendered ==
    /\ Answered /\ answer # NoAnswer
    /\ ~resp.error.set
    /\ resp.result.by = "executeQuery"

\* The rows the query returned, and the lines of one kind in the text
Kept == answer.rows
LinesOf(kind) == SelectSeq(resp.result.text, LAMBDA l : l.kind = kind)

\* The characters of a text: a well-formed three-byte sequence is one
\* character, every other byte is one
RECURSIVE Characters(_)
Characters(s) ==
    IF s = <<>> THEN <<>>
    ELSE IF s[1] \in Lead3 /\ Len(s) >= 3 /\ s[2] \in Cont /\ s[3] \in Cont
    THEN <<SubSeq(s, 1, 3)>> \o Characters(SubSeq(s, 4, Len(s)))
    ELSE <<SubSeq(s, 1, 1)>> \o Characters(Tail(s))

RECURSIVE Concat(_)
Concat(ss) == IF ss = <<>> THEN <<>> ELSE Head(ss) \o Concat(Tail(ss))

\* Length in characters, and the first n characters
CharLen(s) == Len(Characters(s))
FirstChars(s, n) == Concat(SubSeq(Characters(s), 1, n))

\* The width the specification gives column i of the rendered table
SpecWidth(i) ==
    LET longest == Max({Len(answer.cols[i])} \cup
                       {Len(ValueStr(Kept[j].vals[i])) : j \in DOMAIN Kept})
    IN  IF longest < 8 THEN 8 ELSE IF longest > 30 THEN 30 ELSE longest

\* C12: in the table of a result that is not empty, every value is padded to
\* the width of its column, max(len(name), longest len(value)) brought into
\* 8..30; a value of more than 30 characters is shown as its first 27
\* characters and "...", and no value shown has more than 30 characters;
\* columns id, name with the row 1, Alice Smith have the widths 8 and 11
C12_WidthsAndTruncation ==
    (Rendered /\ Kept # <<>>) =>
        LET rowLines == LinesOf("row")
        IN  /\ Len(rowLines) = Len(Kept)
            /\ \A j \in DOMAIN Kept : \A i \in DOMAIN answer.cols :
                  LET cell  == rowLines[j].cells[i]
                      value == ValueStr(Kept[j].vals[i])
                      cut   == FirstChars(value, 27) \o <<".", ".", ".">>
                  IN  /\ CharLen(cell) = SpecWidth(i) + 1
                      /\ CharLen(cell) - 1 <= 30
                      /\ CharLen(value) > 30 =>
                            /\ HasPrefix(cell, cut)
                            /\ \A k \in (Len(cut) + 1)..Len(cell) : cell[k] = " "
            /\ (answer.cols = <<ColId, ColName>> /\ Len(Kept) = 1
                    /\ Kept[1].vals = RowAlice) =>
                  /\ CharLen(rowLines[1].cells[1]) = 8 + 1
                  /\ CharLen(rowLines[1].cells[2]) = 11 + 1

\* C13: the database handle is closed only after the loop has left on the end
\* of the stream: it is open while a request is read, logged or dispatched,
\* and once it is closed every request that was read has been answered and
\* nothing more is read or dispatched
C13_ClosedAfterLoop ==
    /\ pc \in {"Reading", "Logging", "Dispatching", "Done"} => dbOpen
    /\ ~dbOpen =>
          /\ pc = "Closed"
          /\ decErr = "EOF" /\ input = <<>>
          /\ Len(out) = Len(reqIds)

C13_Witness ==
    /\ ~dbOpen /\ pc = "Closed"
    /\ Len(out) = 2 /\ Len(reqIds) = 2
    /\ decErr = "EOF"

\* C14: tools/list answers with the five descriptors list_tables,
\* describe_table, query_table, execute_query, show_table_indexes in this
\* order, requiring nothing, table_name, table_name, query, table_name,
\* whatever the database does and whatever was asked before; it sends no
\* statement
C14_ToolsListFixed ==
    (Answered /\ cur.wire.method = "tools/list") =>
        /\ ~resp.error.set
        /\ resp.result.kind = "tools"
        /\ [i \in DOMAIN resp.result.tools |-> resp.result.tools[i].name]
              = <<"list_tables", "describe_table", "query_table",
                  "execute_query", "show_table_indexes">>
        /\ [i \in DOMAIN resp.result.tools |-> resp.result.tools[i].required]
              = << <<>>, <<"table_name">>, <<"table_name">>, <<"query">>,
                   <<"table_name">> >>
        /\ sent = <<>> /\ answer = NoAnswer

C14_Witness ==
    /\ Answered /\ cur.wire.method = "tools/list"
    /\ cur.wire.params = ParamsNull
    /\ Len(out) = 2
    /\ Len(resp.result.tools) = 5

\* C15: the text for a query that returned no row has the line that says no
\* data was found and neither header nor dashes nor row lines; the text for
\* a query that returned rows has the header with the column names, the line
\* of dashes, then one line for each row in order, and no such line
C15_SentinelOrTable ==
    Rendered =>
        LET text == resp.result.text
            Count(kind) == Len(LinesOf(kind))
        IN  /\ Kept = <<>> =>
                  /\ Count("sentinel") = 1
                  /\ Count("header") = 0 /\ Count("separator") = 0
                  /\ Count("row") = 0
            /\ Kept # <<>> =>
                  /\ Count("sentinel") = 0
                  /\ Count("header") = 1 /\ Count("separator") = 1
                  /\ Count("row") = Len(Kept)
                  /\ Len(text) = Len(Kept) + 4
                  /\ text[3].kind = "header" /\ text[4].kind = "separator"
                  /\ \A i \in DOMAIN answer.cols :
                        HasPrefix(text[3].cells[i], answer.cols[i])
                  /\ text[4].cells[1] # <<>>
                  /\ \A k \in DOMAIN text[4].cells[1] : text[4].cells[1][k] = "-"
                  /\ \A j \in DOMAIN Kept : \A i \in DOMAIN answer.cols :
                        LET value == ValueStr(Kept[j].vals[i])
                        IN  HasPrefix(text[4 + j].cells[i],
                                      SubSeq(value, 1, IF Len(value) < 27
                                                       THEN Len(value) ELSE 27))

C15_Witness ==
    /\ Rendered
    /\ answer.rows = <<>> /\ answer.iter = "ok"
    /\ Len(LinesOf("sentinel")) = 1
    /\ Len(resp.result.text) = 3

\* Length of a line of the text in characters
LineLen(line) == CharLen(Concat(line.cells))

\* Sum of SpecWidth(i) + 1 over the first n columns
RECURSIVE SumWidths(_)
SumWidths(n) == IF n = 0 THEN 0 ELSE SumWidths(n - 1) + SpecWidth(n) + 1

\* C16: in the table of a result that is not empty the header, the line of
\* dashes and every row line have one length, the sum over the columns of the
\* width brought into 8..30 plus one, whatever the lengths of the column
\* names and of the values
C16_LinesSameLength ==
    (Rendered /\ Kept # <<>>) =>
        \A k \in 3..Len(resp.result.text) :
            LineLen(resp.result.text[k]) = SumWidths(Len(answer.cols))

\* A tools/call whose params parse and name none of the five tools (params
\* null parse to the empty name)
UnknownTool ==
    /\ IsToolCall /\ ~Unparseable(cur.wire.params)
    /\ \/ cur.wire.params.t = "null"
       \/ cur.wire.params.name \notin
             {NameStr(n) : n \in {"list_tables", "describe_table", "query_table",
                                  "execute_query", "show_table_indexes"}}

\* The requests that need no work of the database
NoDatabaseWork ==
    /\ Answered
    /\ \/ cur.wire.method \in {"initialize", "tools/list"}
       \/ cur.wire.method \notin {"initialize", "tools/list", "tools/call"}
       \/ IsToolCall /\ Unparseable(cur.wire.params)
       \/ UnknownTool
       \/ \E t \in {"describe_table", "show_table_indexes", "query_table",
                     "execute_query"} :
             Calls(t) /\ WireArg(RequiredOf(t)[1]) = JAbsent
       \/ /\ Calls("execute_query") /\ WireArg("query").t = "string"
          /\ ~GateAccepts(WireArg("query").s)

\* C17: initialize, tools/list, an unknown method, a tools/call with params
\* that do not parse, with an unknown tool, without a required argument, and
\* an execute_query the gate rejects are answered without a statement being
\* sent to the database
C17_NoStatementSent ==
    NoDatabaseWork => (sent = <<>> /\ answer = NoAnswer)

C17_Witness ==
    /\ Calls("execute_query")
    /\ WireArg("query") = JStr(QDrop)
    /\ resp.error.set /\ resp.error.Message = MsgNotAllowed
    /\ sent = <<>>
    /\ Len(out) = 2
====
